---- MODULE Spec2Model ----
(***************************************************************************)
(* Model of behavioral/command.py: Command variants, CommandFactory and    *)
(* CommandScheduler, driven by caller tasks on one asyncio event loop;     *)
(* of behavioral/observer.py, behavioral/memento.py and                    *)
(* behavioral/chain_of_responsibility.py; of structural/decorator.py and   *)
(* structural/flyweight.py; and of creational/abstract_factory.py and      *)
(* creational/builder.py.                                                  *)
(* Each subsystem has its own variables and its own specification.         *)
(***************************************************************************)
EXTENDS Integers, Sequences, FiniteSets, TLC

(* ---------------------------- bounds ----------------------------------- *)
MaxSchedules == 2
MaxEmptyCalls == 1
MaxNotifies == 2         \* notify_observers calls
MaxSecured == 2          \* 'secured_' prefixes a credential can carry
MaxRetries == 5          \* largest retries a RetryingClient is built with
NumTasks == 2
NumThreads == 2          \* threads constructing MetadataFlyweight
MaxClients == 4          \* clients a caller creates from one loaded factory

(* ---------------------------- universe --------------------------------- *)
Tasks == 1..NumTasks
NoTask == 0

CustomerIds == {"123", "test123"}
ResourceIds == {"res-456"}
Refs == {"d1", "d2"}
DictVals == {[name |-> "John Doe"], [name |-> "Test User"]}

(* class CommandTypes(str, Enum) *)
CREATE_CUSTOMER == "create_customer"
PROVISION_RESOURCES == "provision_resources"

None == [cls |-> "NoneType"]

(* Observers of the EventSubject, and the (event, data) pairs it is given *)
Observers == {"ReactObserver", "MessageBusObserver", "TestObserver"}
Notifications ==
    {[event |-> "test_event", data |-> [key |-> "value"]],
     [event |-> "test_event", data |-> [key |-> "value2"]]}

(* Pipeline state (memento.py): a dict is its set of (key, value) items;   *)
(* a credential is the sequence of pieces its text is made of.             *)
Fields == {"offsets", "schema_versions", "credentials"}
Objs == 1..7
StateDicts(f) ==
    IF f = "offsets" THEN {{}, {<<"sourceA", 50>>}, {<<"sourceA", 75>>}}
    ELSE IF f = "schema_versions" THEN {{}, {<<"sourceA", "v2.0">>}, {<<"sourceA", "v1.5">>}}
    ELSE {{}, {<<"api_key", <<"key123">>>>}, {<<"api_key", <<"secret123">>>>}}

(* Handlers and events (chain_of_responsibility.py); a str value is kept   *)
(* apart from None by its class.                                           *)
Str(text) == [cls |-> "str", val |-> text]
ValidationHandler == [cls |-> "ValidationHandler"]
EnrichmentHandler == [cls |-> "EnrichmentHandler"]
AuthorizationHandler == [cls |-> "AuthorizationHandler"]
RoutingHandler == [cls |-> "RoutingHandler"]
Handlers == {ValidationHandler, EnrichmentHandler, AuthorizationHandler, RoutingHandler}

Event(event_id, payload, authorized, route) ==
    [event_id |-> event_id, payload |-> payload, authorized |-> authorized,
     route |-> route]

Events ==
    {Event(i, p, a, r) :
        i \in {Str("evt_123"), Str("evt_456"), Str(""), None},
        p \in {[data |-> "sample"], [data |-> "sample", enriched |-> FALSE]},
        a \in BOOLEAN,
        r \in {None, Str("manual_route")}}

(* Threads, descriptor ids and attributes (flyweight.py) *)
Threads == 1..NumThreads
DescriptorIds == {"schema-1", "schema-2"}

(* Clients and calls (decorator.py) *)
TracingClient == [cls |-> "TracingClient"]
RetryingClient(retries) == [cls |-> "RetryingClient", retries |-> retries]
Methods == {"get_user", "update_user"}
UserIds == {"12345", "67890"}
Ret(v) == [how |-> "return", val |-> v]
SimulatedNetworkError == [cls |-> "Exception", msg |-> "Simulated network error"]

(* ------------------------ Command variants ----------------------------- *)
(* CreateCustomerCommand.__init__ *)
CreateCustomerCommand(customer_id, customer_data) ==
    [cls |-> "CreateCustomerCommand",
     customer_id |-> customer_id,
     customer_data |-> customer_data]

(* ProvisionResourcesCommand.__init__ *)
ProvisionResourcesCommand(resource_id, resource_config) ==
    [cls |-> "ProvisionResourcesCommand",
     resource_id |-> resource_id,
     resource_config |-> resource_config]

Commands ==
    {CreateCustomerCommand(i, d) : i \in CustomerIds, d \in Refs}
    \cup {ProvisionResourcesCommand(i, d) : i \in ResourceIds, d \in Refs}

(* one command of each class *)
SmallCommands ==
    {CreateCustomerCommand("123", "d1"), ProvisionResourcesCommand("res-456", "d2")}

IsCommand(c) == c.cls \in {"CreateCustomerCommand", "ProvisionResourcesCommand"}

(* The mapping values of a command are held by reference: the field is the *)
(* identity of a dict object whose content lives in heap.                  *)
FieldValues(c, h) ==
    IF c.cls = "CreateCustomerCommand"
    THEN <<c.customer_id, h[c.customer_data]>>
    ELSE <<c.resource_id, h[c.resource_config]>>

(* serialize() of both variants *)
serialize(c) ==
    IF c.cls = "CreateCustomerCommand"
    THEN [type |-> CREATE_CUSTOMER,
          customer_id |-> c.customer_id,
          customer_data |-> c.customer_data]
    ELSE [type |-> PROVISION_RESOURCES,
          resource_id |-> c.resource_id,
          resource_config |-> c.resource_config]

KeyError == [cls |-> "KeyError"]
ValueError == [cls |-> "ValueError"]
SimulatedFailure == [cls |-> "Exception"]

(* deserialize() of both variants; data[k] on a missing key raises KeyError *)
deserialize(cls, data) ==
    IF cls = "CreateCustomerCommand"
    THEN IF {"customer_id", "customer_data"} \subseteq DOMAIN data
         THEN CreateCustomerCommand(data["customer_id"], data["customer_data"])
         ELSE KeyError
    ELSE IF {"resource_id", "resource_config"} \subseteq DOMAIN data
         THEN ProvisionResourcesCommand(data["resource_id"], data["resource_config"])
         ELSE KeyError

(* ---------------------------- CommandFactory --------------------------- *)
command_map_swapped ==
    [t \in {CREATE_CUSTOMER, PROVISION_RESOURCES} |->
        IF t = CREATE_CUSTOMER THEN "ProvisionResourcesCommand"
                               ELSE "CreateCustomerCommand"]

command_map ==
    [t \in {CREATE_CUSTOMER, PROVISION_RESOURCES} |->
        IF t = CREATE_CUSTOMER THEN "CreateCustomerCommand"
                               ELSE "ProvisionResourcesCommand"]

create_command_default(data) ==
    LET command_type == IF "type" \in DOMAIN data THEN data["type"] ELSE "None"
    IN  IF command_type \notin DOMAIN command_map
        THEN deserialize("CreateCustomerCommand", data)
        ELSE deserialize(command_map[command_type], data)

create_command(data) ==
    LET command_type == IF "type" \in DOMAIN data THEN data["type"] ELSE "None"
    IN  IF command_type \notin DOMAIN command_map
        THEN ValueError
        ELSE deserialize(command_map[command_type], data)

(* --------------------------- state ------------------------------------- *)
VARIABLES
    queue,               \* CommandScheduler.queue
    heap,                \* content of the dict objects commands refer to
    pc,                  \* position of each caller task inside execute_next
    serialized_command,  \* local of execute_next, per task
    command,             \* local of execute_next, per task
    running,             \* task holding the event loop, NoTask when free
    result,              \* how the most recently finished call ended
    entry_queue,         \* queue as it was when the task's current call began
    trace                \* calls made and lines printed, in order

schedVars == <<queue, heap, pc, serialized_command, command, running,
               result, entry_queue, trace>>

VARIABLES
    factory_last         \* the latest direct call of CommandFactory.create_command


(* EventSubject and its observers (observer.py) *)
VARIABLES
    observers,           \* EventSubject._observers
    received,            \* per observer: the (event, data) pairs update() was given
    notifying,           \* argument of the notify_observers call in progress
    obs_pending,         \* observers the running for loop has yet to visit
    obs_registered,      \* observers whose latest call was register_observer
    expected,            \* per observer: pairs notified while it was registered
    num_notifies         \* notify_observers calls made

obsVars == <<observers, received, notifying, obs_pending, obs_registered,
             expected, num_notifies>>

(* PipelineOrchestrator and the memento taken of it (memento.py) *)
VARIABLES
    mheap,               \* content of the dict objects, by object identity
    orchestrator,        \* current_offsets / current_schema_versions / current_credentials
    memento,             \* the PipelineMemento held by the caller, None before the first
    checkpoint,          \* the orchestrator's three dicts as they were at create_memento
    changed,             \* the orchestrator's state was altered since create_memento
    last_op              \* the latest operation on the orchestrator

memVars == <<mheap, orchestrator, memento, checkpoint, changed, last_op>>

(* The handler chain and the event passed along it (chain_of_responsibility.py) *)
VARIABLES
    next_handler,        \* Handler.next_handler of each handler, None before they exist
    head,                \* what build_handler_chain returned
    event,               \* the Event object being handled
    passed,              \* the event as it was when handle was called on the chain
    current,             \* the handler whose handle is running
    handled,             \* handlers whose handle has run for this event, in order
    chain_result,        \* how the call handle(event) on the chain ended
    chain_pc             \* "start", "built", "handling", "done"

chainVars == <<next_handler, head, event, passed, current, handled, chain_result,
               chain_pc>>

(* A ParagoN client, bare or decorated, and the call made on it (decorator.py) *)
VARIABLES
    config,              \* enable_retries, enable_tracing, retries of the ParagonClientConfig
    client,              \* the decorators around the base client, outermost first
    call,                \* method and user_id of the call in progress
    level,               \* the layer the call is in: 1 outermost, Len(client)+1 the base
    attempt,             \* loop variable of RetryingClient.retry_func
    ret,                 \* what the layer below returned or raised
    call_result,         \* how the call on the client ended
    out,                 \* lines printed during the call
    dec_pc               \* "start", "idle", "enter", "leave", "done"

decVars == <<config, client, call, level, attempt, ret, call_result, out, dec_pc>>

(* MetadataFlyweight and the threads constructing it (flyweight.py) *)
VARIABLES
    registry,            \* MetadataFlyweight._registry, None where the id is absent
    lock,                \* thread holding MetadataFlyweight._lock, NoTask when free
    fw_pc,               \* per thread: "idle", "acquire", "check", "create", "return"
    fw_args,             \* per thread: descriptor_id and attributes of its call
    fw_ret,              \* per thread: the instance its latest call returned
    num_created          \* per descriptor id: instances created by super().__new__

fwVars == <<registry, lock, fw_pc, fw_args, fw_ret, num_created>>

(* creational/abstract_factory.py: a caller of load_factory *)
VARIABLES
    provider_name,       \* the argument of the last load_factory call, None before it
    factory,             \* how that call ended: the factory returned or the error raised
    created              \* the clients created from the returned factory, in order
afVars == <<provider_name, factory, created>>

(* creational/builder.py: one SparkJobBuilder and the spec built from it *)
VARIABLES
    builder,             \* the builder's attributes, by the name of the spec field they feed
    spec,                \* the slots of the built SparkJobSpec, None before build
    spec_error           \* how the last assignment to or deletion from the spec ended
bldVars == <<builder, spec, spec_error>>

moreVars == <<fwVars, afVars, bldVars>>
otherVars == <<factory_last, obsVars, memVars, chainVars, decVars, moreVars>>
notObs == <<schedVars, factory_last, memVars, chainVars, decVars, moreVars>>
notMem == <<schedVars, factory_last, obsVars, chainVars, decVars, moreVars>>
notChain == <<schedVars, factory_last, obsVars, memVars, decVars, moreVars>>
notDec == <<schedVars, factory_last, obsVars, memVars, chainVars, moreVars>>
notFw == <<schedVars, factory_last, obsVars, memVars, chainVars, decVars, afVars, bldVars>>
notAf == <<schedVars, factory_last, obsVars, memVars, chainVars, decVars, fwVars, bldVars>>
notBld == <<schedVars, factory_last, obsVars, memVars, chainVars, decVars, fwVars, afVars>>
vars == <<schedVars, otherVars>>

Ev(e, a) == [ev |-> e, arg |-> a]

EventsOf(kinds) == SelectSeq(trace, LAMBDA x : x.ev \in kinds)
ArgsOf(kinds) == [i \in 1..Len(EventsOf(kinds)) |-> EventsOf(kinds)[i].arg]
NumScheduled == Len(EventsOf({"Scheduled"}))
NumEmptyCalls == Len(EventsOf({"NoCommands"}))

Returned == [how |-> "return", exc |-> None]
Raised(e) == [how |-> "raise", exc |-> e]
NotCalled == [how |-> "none", exc |-> None]

(* The state after construction of each object *)
Init ==
    (* CommandScheduler.__init__ *)
    /\ queue = <<>>
    /\ heap = [r \in Refs |-> [name |-> "John Doe"]]
    /\ pc = [t \in Tasks |-> "idle"]
    /\ serialized_command = [t \in Tasks |-> None]
    /\ command = [t \in Tasks |-> None]
    /\ running = NoTask
    /\ result = NotCalled
    /\ entry_queue = [t \in Tasks |-> <<>>]
    /\ trace = <<>>
    /\ factory_last = [data |-> None, made |-> None, outcome |-> NotCalled]
    (* EventSubject.__init__, and observers that have received nothing *)
    /\ observers = {}
    /\ received = [o \in Observers |-> <<>>]
    /\ notifying = None
    /\ obs_pending = {}
    /\ obs_registered = {}
    /\ expected = [o \in Observers |-> <<>>]
    /\ num_notifies = 0
    (* PipelineOrchestrator.__init__: three empty dicts, no memento yet *)
    /\ mheap = [i \in Objs |-> {}]
    /\ orchestrator = [offsets |-> 1, schema_versions |-> 2, credentials |-> 3]
    /\ memento = None
    /\ checkpoint = None
    /\ changed = FALSE
    /\ last_op = "__init__"
    (* before build_handler_chain is called *)
    /\ next_handler = [h \in Handlers |-> None]
    /\ head = None
    /\ event = None
    /\ passed = None
    /\ current = None
    /\ handled = <<>>
    /\ chain_result = NotCalled
    /\ chain_pc = "start"
    (* before any client is built *)
    /\ config = None
    /\ client = <<>>
    /\ call = [method |-> "", user_id |-> ""]
    /\ level = 0
    /\ attempt = 0
    /\ ret = NotCalled
    /\ call_result = NotCalled
    /\ out = <<>>
    /\ dec_pc = "start"
    (* class MetadataFlyweight: empty registry, free lock *)
    /\ registry = [d \in DescriptorIds |-> None]
    /\ lock = NoTask
    /\ fw_pc = [t \in Threads |-> "idle"]
    /\ fw_args = [t \in Threads |-> None]
    /\ fw_ret = [t \in Threads |-> None]
    /\ num_created = [d \in DescriptorIds |-> 0]
    (* abstract_factory.py: load_factory not called yet *)
    /\ provider_name = None
    /\ factory = NotCalled
    /\ created = <<>>
    (* SparkJobBuilder.__init__ *)
    /\ builder = [input_source |-> None,
                  transforms |-> [cls |-> "list", items |-> <<>>],
                  windowing |-> None,
                  triggers |-> None,
                  resources |-> [cls |-> "dict", items |-> <<>>],
                  monitoring_hooks |-> [cls |-> "list", items |-> <<>>],
                  spec_version |-> Str("1.0")]
    /\ spec = None
    /\ spec_error = NotCalled

(* ------------------------ event loop ----------------------------------- *)
(* A coroutine keeps the loop until it awaits something that suspends.     *)
(* execute() and undo() of both variants contain no await.                 *)
SuspendsAlways(c, method) == TRUE
Suspends(c, method) == FALSE

CanRun(t) == running \in {NoTask, t}

Hold(t, c, method) == IF Suspends(c, method) THEN NoTask ELSE t

(* list.append(x) *)
queue_prepend(q, x) == <<x>> \o q
queue_append(q, x) == Append(q, x)

(* list.pop(0): the value returned and the list left behind *)
queue_pop_last(q) == [value |-> q[Len(q)], rest |-> SubSeq(q, 1, Len(q) - 1)]
queue_peek(q) == [value |-> Head(q), rest |-> q]
queue_pop(q) == [value |-> Head(q), rest |-> Tail(q)]

(* except Exception *)
CaughtValueErrorOnly(e) == e.cls = "ValueError"
Caught(e) == e.cls \in {"Exception", "ValueError", "KeyError"}

(* ------------------------ CommandScheduler ----------------------------- *)
(* execute_next returns or raises: its frame is dropped, the loop is free. *)
Leave(t) ==
    /\ pc' = [pc EXCEPT ![t] = "idle"]
    /\ serialized_command' = [serialized_command EXCEPT ![t] = None]
    /\ command' = [command EXCEPT ![t] = None]
    /\ entry_queue' = [entry_queue EXCEPT ![t] = <<>>]
    /\ running' = NoTask

schedule(t, c) ==
    /\ pc[t] = "idle"
    /\ CanRun(t)
    /\ NumScheduled < MaxSchedules
    /\ LET s == serialize(c)
       IN  /\ queue' = queue_append(queue, s)
           /\ trace' = trace \o <<Ev("schedule", c), Ev("Scheduled", s)>>
    /\ result' = Returned
    /\ running' = NoTask
    /\ UNCHANGED <<heap, pc, serialized_command, command, entry_queue>>

execute_next_empty_no_return(t) ==
    /\ pc[t] = "idle"
    /\ CanRun(t)
    /\ NumEmptyCalls < MaxEmptyCalls
    /\ queue = <<>>
    /\ trace' = Append(trace, Ev("NoCommands", None))
    /\ result' = Raised([cls |-> "IndexError"])
    /\ running' = NoTask
    /\ UNCHANGED <<queue, heap, pc, serialized_command, command, entry_queue>>

(* execute_next, lines 144-146 *)
execute_next_empty(t) ==
    /\ pc[t] = "idle"
    /\ CanRun(t)
    /\ NumEmptyCalls < MaxEmptyCalls
    /\ queue = <<>>
    /\ trace' = Append(trace, Ev("NoCommands", None))
    /\ result' = Returned
    /\ running' = NoTask
    /\ UNCHANGED <<queue, heap, pc, serialized_command, command, entry_queue>>

(* execute_next, lines 148-149 *)
execute_next_pop_putback(t) ==
    /\ pc[t] = "idle"
    /\ CanRun(t)
    /\ queue # <<>>
    /\ LET s == queue_pop(queue).value
           c == create_command(s)
       IN  IF IsCommand(c)
           THEN /\ queue' = queue_pop(queue).rest
                /\ trace' = trace \o <<Ev("create_command", s), Ev("command", c)>>
                /\ serialized_command' = [serialized_command EXCEPT ![t] = s]
                /\ entry_queue' = [entry_queue EXCEPT ![t] = queue]
                /\ command' = [command EXCEPT ![t] = c]
                /\ pc' = [pc EXCEPT ![t] = "execute"]
                /\ running' = Hold(t, c, "execute")
                /\ UNCHANGED result
           ELSE /\ queue' = queue_append(queue_pop(queue).rest, s)
                /\ trace' = Append(trace, Ev("create_command", s))
                /\ result' = Raised(c)
                /\ Leave(t)
    /\ UNCHANGED heap

execute_next_pop(t) ==
    /\ pc[t] = "idle"
    /\ CanRun(t)
    /\ queue # <<>>
    /\ LET s == queue_pop(queue).value
           c == create_command(s)
       IN  /\ queue' = queue_pop(queue).rest
           /\ IF IsCommand(c)
              THEN /\ trace' = trace \o <<Ev("create_command", s), Ev("command", c)>>
                   /\ serialized_command' = [serialized_command EXCEPT ![t] = s]
                   /\ entry_queue' = [entry_queue EXCEPT ![t] = queue]
                   /\ command' = [command EXCEPT ![t] = c]
                   /\ pc' = [pc EXCEPT ![t] = "execute"]
                   /\ running' = Hold(t, c, "execute")
                   /\ UNCHANGED result
              ELSE /\ trace' = Append(trace, Ev("create_command", s))
                   /\ result' = Raised(c)
                   /\ Leave(t)
    /\ UNCHANGED heap

execute_next_execute_finally(t) ==
    /\ pc[t] = "execute"
    /\ CanRun(t)
    /\ \E fails \in BOOLEAN :
         /\ trace' = trace \o (IF fails
                               THEN <<Ev("execute", command[t]),
                                      Ev("execute_raised", command[t]),
                                      Ev("failed", command[t])>>
                               ELSE <<Ev("execute", command[t]),
                                      Ev("Executed", serialized_command[t])>>)
         /\ pc' = [pc EXCEPT ![t] = "undo"]
         /\ running' = Hold(t, command[t], "undo")
         /\ UNCHANGED <<result, serialized_command, command, entry_queue>>
    /\ UNCHANGED <<queue, heap>>

(* execute_next, lines 150-154: command.execute() and simulate_failure *)
execute_next_execute(t) ==
    /\ pc[t] = "execute"
    /\ CanRun(t)
    /\ \E fails \in BOOLEAN :
         IF ~fails
         THEN /\ trace' = trace \o <<Ev("execute", command[t]),
                                     Ev("Executed", serialized_command[t])>>
              /\ result' = Returned
              /\ Leave(t)
         ELSE IF Caught(SimulatedFailure)
         THEN /\ trace' = trace \o <<Ev("execute", command[t]),
                                     Ev("execute_raised", command[t]),
                                     Ev("failed", command[t])>>
              /\ pc' = [pc EXCEPT ![t] = "undo"]
              /\ running' = Hold(t, command[t], "undo")
              /\ UNCHANGED <<result, serialized_command, command, entry_queue>>
         ELSE /\ trace' = trace \o <<Ev("execute", command[t]),
                                     Ev("execute_raised", command[t])>>
              /\ result' = Raised(SimulatedFailure)
              /\ Leave(t)
    /\ UNCHANGED <<queue, heap>>

(* An exception raised inside the body of undo() *)
UndoFailure == [cls |-> "UndoError"]

execute_next_undo_raises_swallowed(t) ==
    /\ pc[t] = "undo"
    /\ CanRun(t)
    /\ trace' = trace \o <<Ev("undo", command[t]),
                           Ev("undo_raised", command[t]),
                           Ev("Undid", serialized_command[t])>>
    /\ result' = Returned
    /\ Leave(t)
    /\ UNCHANGED <<queue, heap>>

(* execute_next, line 155, when undo() raises: no handler encloses it *)
execute_next_undo_raises(t) ==
    /\ pc[t] = "undo"
    /\ CanRun(t)
    /\ trace' = trace \o <<Ev("undo", command[t]),
                           Ev("undo_raised", command[t])>>
    /\ result' = Raised(UndoFailure)
    /\ Leave(t)
    /\ UNCHANGED <<queue, heap>>

execute_next_undo_not_awaited(t) ==
    /\ pc[t] = "undo"
    /\ CanRun(t)
    /\ trace' = Append(trace, Ev("Undid", serialized_command[t]))
    /\ result' = Returned
    /\ Leave(t)
    /\ UNCHANGED <<queue, heap>>

execute_next_undo_retry(t) ==
    /\ pc[t] = "undo"
    /\ CanRun(t)
    /\ trace' = trace \o <<Ev("undo", command[t]),
                           Ev("Undid", serialized_command[t])>>
    /\ queue' = queue_append(queue, serialized_command[t])
    /\ result' = Returned
    /\ Leave(t)
    /\ UNCHANGED heap

(* execute_next, lines 155-156: command.undo() *)
execute_next_undo(t) ==
    /\ pc[t] = "undo"
    /\ CanRun(t)
    /\ trace' = trace \o <<Ev("undo", command[t]),
                           Ev("Undid", serialized_command[t])>>
    /\ result' = Returned
    /\ Leave(t)
    /\ UNCHANGED <<queue, heap>>

Schedule == (\E t \in Tasks, c \in Commands : schedule(t, c)) /\ UNCHANGED otherVars
ExecuteNextEmpty == (\E t \in Tasks : execute_next_empty(t)) /\ UNCHANGED otherVars
ExecuteNextPop == (\E t \in Tasks : execute_next_pop(t)) /\ UNCHANGED otherVars
ExecuteNextExecute == (\E t \in Tasks : execute_next_execute(t)) /\ UNCHANGED otherVars
ExecuteNextUndo == (\E t \in Tasks : execute_next_undo(t)) /\ UNCHANGED otherVars

Next ==
    \/ Schedule
    \/ ExecuteNextEmpty
    \/ ExecuteNextPop
    \/ ExecuteNextExecute
    \/ ExecuteNextUndo

Spec == Init /\ [][Next]_vars

(* ------------- records that did not come from serialize() ------------- *)
(* queue is a public list and create_command a public classmethod: a       *)
(* caller can hand either of them any dict.                                *)
RawRecords ==
    {[type |-> "unknown_type", customer_id |-> "123", customer_data |-> "d1"],
     [customer_id |-> "123", customer_data |-> "d1"],
     [type |-> CREATE_CUSTOMER, customer_id |-> "123"],
     [type |-> PROVISION_RESOURCES, resource_config |-> "d2"]}


NumRawRecords == Cardinality({i \in 1..Len(trace) : trace[i].ev = "enqueue_raw"})

(* scheduler.queue.append(r) by the owner of the scheduler *)
enqueue_raw(t, r) ==
    /\ pc[t] = "idle"
    /\ CanRun(t)
    /\ NumScheduled + NumRawRecords < MaxSchedules
    /\ queue' = queue_append(queue, r)
    /\ trace' = Append(trace, Ev("enqueue_raw", r))
    /\ result' = Returned
    /\ UNCHANGED <<heap, pc, serialized_command, command, running, entry_queue>>

(* CommandFactory.create_command(data) called directly, between calls of   *)
(* the scheduler; factory_last keeps the argument and how the call ended.  *)
factory_create(data) ==
    /\ running = NoTask
    /\ LET c == create_command(data)
       IN  factory_last' = [data |-> data,
                            made |-> IF IsCommand(c) THEN c ELSE None,
                            outcome |-> IF IsCommand(c) THEN Returned ELSE Raised(c)]
    /\ UNCHANGED <<schedVars, obsVars, memVars, chainVars, decVars, moreVars>>


(* ------------- the caller keeps the dict it built a command from ------- *)
(* d[k] = v on a dict object, by the code that created it *)
mutate_dict(r, v) ==
    /\ running = NoTask
    /\ heap[r] # v
    /\ heap' = [heap EXCEPT ![r] = v]
    /\ UNCHANGED <<queue, pc, serialized_command, command, running, result,
                   entry_queue, trace>>


(* The scheduler driven with one command of each class, and with commands  *)
(* whose undo() may raise.                                                 *)
ScheduleSmall ==
    (\E t \in Tasks, c \in SmallCommands : schedule(t, c)) /\ UNCHANGED otherVars

NextUndoFault ==
    \/ ScheduleSmall
    \/ ExecuteNextEmpty
    \/ ExecuteNextPop
    \/ ExecuteNextExecute
    \/ ExecuteNextUndo
    \/ (\E t \in Tasks : execute_next_undo_raises(t)) /\ UNCHANGED otherVars

SpecUndoFault == Init /\ [][NextUndoFault]_vars

NextRaw ==
    \/ /\ NumScheduled + NumRawRecords < MaxSchedules
       /\ \E t \in Tasks, c \in SmallCommands : schedule(t, c)
       /\ UNCHANGED otherVars
    \/ (\E t \in Tasks, r \in RawRecords : enqueue_raw(t, r)) /\ UNCHANGED otherVars
    \/ ExecuteNextPop
    \/ ExecuteNextExecute
    \/ ExecuteNextUndo

SpecRaw == Init /\ [][NextRaw]_vars

NextAlias ==
    \/ ScheduleSmall
    \/ (\E r \in Refs, v \in DictVals : mutate_dict(r, v)) /\ UNCHANGED otherVars
    \/ ExecuteNextPop
    \/ ExecuteNextExecute
    \/ ExecuteNextUndo

SpecAlias == Init /\ [][NextAlias]_vars

(* execute_next keeps being invoked while records are queued, and a call  *)
(* that has begun runs to its end.                                         *)
NextLive ==
    \/ ScheduleSmall
    \/ ExecuteNextEmpty
    \/ ExecuteNextPop
    \/ ExecuteNextExecute
    \/ ExecuteNextUndo

SpecLive ==
    /\ Init
    /\ [][NextLive]_vars
    /\ WF_vars(ExecuteNextPop)
    /\ WF_vars(ExecuteNextExecute)
    /\ WF_vars(ExecuteNextUndo)

NextFactory ==
    \/ ScheduleSmall
    \/ \E r \in RawRecords \cup {serialize(c) : c \in SmallCommands} : factory_create(r)
    \/ ExecuteNextPop
    \/ ExecuteNextExecute
    \/ ExecuteNextUndo

SpecFactory == Init /\ [][NextFactory]_vars

(* ------------------------ derived history ------------------------------ *)
Scheduled == ArgsOf({"Scheduled"})          \* records appended by schedule
ScheduledCommands == ArgsOf({"schedule"})   \* commands passed to schedule
Popped == ArgsOf({"create_command"})        \* records handed to the factory
Constructed == ArgsOf({"command"})          \* commands the factory returned
Executions == ArgsOf({"execute"})           \* commands whose execute ran
NumPopped == Len(Popped)
LastEv == IF trace = <<>> THEN "" ELSE trace[Len(trace)].ev
InFlight == {t \in Tasks : pc[t] # "idle"}

TypeOK ==
    /\ \A i \in 1..Len(queue) : "type" \in DOMAIN queue[i]
    /\ pc \in [Tasks -> {"idle", "execute", "undo"}]
    /\ running \in Tasks \cup {NoTask}

(* C1: commands are executed in the order they were scheduled (FIFO): the  *)
(* records popped so far, in pop order, followed by the records still      *)
(* queued, are exactly the records scheduled, in schedule order; and the   *)
(* k-th command whose execute runs is the k-th command that was scheduled. *)
C1_FIFO ==
    /\ Scheduled = Popped \o queue
    /\ Len(Executions) <= Len(ScheduledCommands)
    /\ \A k \in 1..Len(Executions) : Executions[k] = ScheduledCommands[k]

C1_Witness ==
    /\ Len(trace) >= 5
    /\ trace[3].ev = "schedule"
    /\ trace[5].ev = "create_command"
    /\ Len(Executions) = 2
    /\ Executions[1] # Executions[2]

(* C2: a call of execute_next on a non-empty queue that runs to its end,   *)
(* by a successful execute or by a compensated failure, leaves the queue   *)
(* it found minus its head: one record shorter.                            *)
C2_ExecuteNextRemovesHead ==
    [][\A t \in Tasks :
          (pc[t] # "idle" /\ pc'[t] = "idle")
          => /\ entry_queue[t] # <<>>
             /\ queue' = Tail(entry_queue[t])
             /\ Len(queue') = Len(entry_queue[t]) - 1
             /\ LastEv' \in {"Executed", "Undid"}]_vars

C2_Witness ==
    /\ LastEv = "Undid"
    /\ queue # <<>>
    /\ InFlight = {}

(* C3: schedule(command) appends the serialized command at the tail: the   *)
(* queue grows by exactly one, the records already queued keep content and *)
(* position, the new last record carries the command's kind tag and field  *)
(* values, and the call returns normally.                                  *)
C3_ScheduleAppends ==
    [][Len(ScheduledCommands') > Len(ScheduledCommands)
       => LET c == ScheduledCommands'[Len(ScheduledCommands')]
              r == queue'[Len(queue')]
          IN  /\ Len(queue') = Len(queue) + 1
              /\ SubSeq(queue', 1, Len(queue)) = queue
              /\ r = serialize(c)
              /\ r.type = (IF c.cls = "CreateCustomerCommand"
                           THEN CREATE_CUSTOMER ELSE PROVISION_RESOURCES)
              /\ heap' = heap
              /\ result' = Returned]_vars

C3_Witness ==
    /\ Len(queue) >= 2
    /\ LastEv = "Scheduled"
    /\ queue[1] # queue[Len(queue)]

(* C4: when execute of a queued command fails, execute_next invokes undo   *)
(* on the command it reconstructed for this call, exactly once and after   *)
(* the failed execute, then reports the record as undone and returns.      *)
C4_FailureCompensatedOnce ==
    /\ \A i \in 1..Len(trace) :
         trace[i].ev = "execute_raised"
         => /\ i >= 4
            /\ trace[i-1] = Ev("execute", trace[i].arg)
            /\ trace[i-2] = Ev("command", trace[i].arg)
            /\ trace[i-3].ev = "create_command"
            /\ i + 1 <= Len(trace)
            /\ trace[i+1].ev = "failed"
            /\ IF i + 1 = Len(trace)
               THEN \E t \in Tasks : pc[t] = "undo" /\ command[t] = trace[i].arg
               ELSE /\ i + 3 <= Len(trace)
                    /\ trace[i+2] = Ev("undo", trace[i].arg)
                    /\ trace[i+3] = Ev("Undid", trace[i-3].arg)
    /\ \A i \in 1..Len(trace) :
         trace[i].ev = "undo" => (i >= 3 /\ trace[i-2].ev = "execute_raised")
    /\ (LastEv = "Undid" => result = Returned)

C4_Witness ==
    /\ Len(EventsOf({"undo"})) = 2
    /\ Len(EventsOf({"execute_raised"})) = 2
    /\ InFlight = {}

(* C5: when execute of a queued command succeeds, execute_next reports the *)
(* record as executed and returns without invoking undo: what follows the  *)
(* report in the history belongs to another call.                          *)
C5_SuccessNotUndone ==
    /\ \A i \in 1..Len(trace) :
         trace[i].ev = "Executed"
         => /\ i >= 3
            /\ trace[i-1].ev = "execute"
            /\ trace[i-2] = Ev("command", trace[i-1].arg)
            /\ (i < Len(trace)
                => trace[i+1].ev \in {"schedule", "NoCommands", "create_command"})
    /\ \A i \in 1..Len(trace) :
         trace[i].ev = "execute"
         => (i < Len(trace) /\ trace[i+1].ev \in {"Executed", "execute_raised"})
    /\ (LastEv = "Executed" => (result = Returned /\ InFlight = {}))

C5_Witness ==
    /\ LastEv = "Executed"
    /\ result = Returned
    /\ Len(EventsOf({"undo"})) = 0
    /\ queue # <<>>

(* Life cycle of the k-th scheduled command, read off the history. *)
PopIndex(k) ==
    CHOOSE i \in 1..Len(trace) :
        /\ trace[i].ev = "create_command"
        /\ Cardinality({j \in 1..i : trace[j].ev = "create_command"}) = k

SegmentOf(k) ==
    PopIndex(k) .. (IF k < NumPopped THEN PopIndex(k + 1) - 1 ELSE Len(trace))

Status(k) ==
    IF k > NumPopped THEN "Scheduled"
    ELSE LET evs == {trace[j].ev : j \in SegmentOf(k)}
         IN  IF "Undid" \in evs THEN "Compensated"
             ELSE IF "Executed" \in evs THEN "Executed"
             ELSE "Executing"

AllowedTransitions ==
    {<<"Scheduled", "Scheduled">>, <<"Scheduled", "Executing">>,
     <<"Executing", "Executing">>, <<"Executing", "Executed">>,
     <<"Executing", "Compensated">>,
     <<"Executed", "Executed">>, <<"Compensated", "Compensated">>}

C7_EmptyIsNoOp ==
    [][(queue = <<>> /\ InFlight = {} /\ NumScheduled' = NumScheduled)
       => /\ queue' = <<>>
          /\ trace' = Append(trace, Ev("NoCommands", None))
          /\ result' = Returned
          /\ UNCHANGED <<pc, command, serialized_command, heap>>]_vars

C7_Witness ==
    /\ LastEv = "NoCommands"
    /\ Len(Executions) >= 1
    /\ queue = <<>>

(* C8: a command rebuilt from its serialized form, by the factory or by    *)
(* its own class's deserialize, is of the same kind and has the same field *)
(* values as the command that was serialized.                              *)
C8_RoundTrip ==
    /\ Len(Constructed) = NumPopped
    /\ \A k \in 1..Len(Constructed) :
         /\ Constructed[k].cls = ScheduledCommands[k].cls
         /\ Constructed[k] = ScheduledCommands[k]
         /\ FieldValues(Constructed[k], heap) = FieldValues(ScheduledCommands[k], heap)
    /\ \A k \in 1..Len(ScheduledCommands) :
         LET c == ScheduledCommands[k]
         IN  /\ create_command(Scheduled[k]) = c
             /\ deserialize(c.cls, Scheduled[k]) = c

C8_Witness ==
    /\ Len(Constructed) = 2
    /\ Constructed[1].cls = "CreateCustomerCommand"
    /\ Constructed[2].cls = "ProvisionResourcesCommand"

(* C9: a failure of execute does not reach the caller of execute_next: it  *)
(* is caught, the compensation runs and the call returns normally.         *)
C9_FailureNotPropagated ==
    /\ (result.how = "raise" => result.exc # SimulatedFailure)
    /\ \A i \in 1..Len(trace) :
         trace[i].ev = "execute_raised"
         => (i < Len(trace) /\ trace[i+1].ev = "failed")
    /\ \A i \in 1..Len(trace) :
         trace[i].ev = "Undid" /\ i = Len(trace)
         => (result = Returned /\ InFlight = {})

C9_Witness ==
    /\ LastEv = "Undid"
    /\ result = Returned
    /\ Len(EventsOf({"execute_raised"})) = 1
    /\ queue = <<>>

C11_UndoFailureSurfaced ==
    /\ \A i \in 1..Len(trace) :
         trace[i].ev = "undo_raised"
         => /\ i >= 2
            /\ trace[i-1] = Ev("undo", trace[i].arg)
            /\ IF i = Len(trace)
               THEN result = Raised(UndoFailure) /\ InFlight = {}
               ELSE trace[i+1].ev \in {"schedule", "NoCommands", "create_command"}
    /\ \A k \in 1..NumPopped :
         Cardinality({j \in SegmentOf(k) : trace[j].ev = "undo"}) <= 1
    /\ NumPopped + Len(queue) = NumScheduled

C11_Witness ==
    /\ \E i \in 1..Len(trace) : trace[i].ev = "undo_raised" /\ i < Len(trace)
    /\ NumPopped = 2
    /\ queue = <<>>
    /\ InFlight = {}

(* A record names a registered kind / carries the fields its kind reads *)
Registered(r) ==
    "type" \in DOMAIN r /\ r["type"] \in {CREATE_CUSTOMER, PROVISION_RESOURCES}

Complete(r) ==
    /\ Registered(r)
    /\ IF r["type"] = CREATE_CUSTOMER
       THEN {"customer_id", "customer_data"} \subseteq DOMAIN r
       ELSE {"resource_id", "resource_config"} \subseteq DOMAIN r


(* C12: when execute_next pops a record of an unregistered kind or with    *)
(* required fields missing, the call ends with the error (ValueError for   *)
(* the kind, KeyError for a field), no Command is constructed, nothing is  *)
(* executed or undone, and the popped record is gone from the queue.       *)
C12_MalformedRecordAborts ==
    /\ \A i \in 1..Len(trace) :
         (trace[i].ev = "create_command" /\ ~Complete(trace[i].arg))
         => IF i = Len(trace)
            THEN /\ result = Raised(IF Registered(trace[i].arg)
                                    THEN KeyError ELSE ValueError)
                 /\ InFlight = {}
            ELSE trace[i+1].ev \in {"schedule", "NoCommands", "create_command", "enqueue_raw"}
    /\ NumPopped + Len(queue) = NumScheduled + NumRawRecords

C12_Witness ==
    /\ \E i \in 1..Len(trace) :
         /\ trace[i].ev = "create_command"
         /\ ~Registered(trace[i].arg)
         /\ i < Len(trace)
    /\ LastEv = "create_command"
    /\ ~Complete(trace[Len(trace)].arg)
    /\ result = Raised(KeyError)
    /\ queue = <<>>

(* C13: create_command on a record of an unregistered kind raises the      *)
(* unknown-kind error (ValueError), constructs no Command, and leaves the  *)
(* scheduler's queue as it was.                                            *)
C13_UnknownKindRaises ==
    /\ [](factory_last.outcome # NotCalled /\ ~Registered(factory_last.data)
            => /\ factory_last.outcome = Raised(ValueError)
               /\ factory_last.made = None)
    /\ [][factory_last' # factory_last => queue' = queue]_vars

C13_Witness ==
    /\ factory_last.outcome = Raised(ValueError)
    /\ factory_last.data =
          [type |-> "unknown_type", customer_id |-> "123", customer_data |-> "d1"]
    /\ Len(queue) = 1
    /\ NumPopped = 1


(* C14: a queued record holds no live reference: while a record sits in    *)
(* the queue, no step changes what the record says, whatever is done to    *)
(* the command or to the mapping it was built from.                        *)
C14_NoLiveReference ==
    [][queue' = queue
       => \A i \in 1..Len(queue) :
            FieldValues(create_command(queue[i]), heap')
              = FieldValues(create_command(queue[i]), heap)]_vars

(* C15: while execute_next keeps being invoked, every scheduled command is *)
(* eventually processed (executed, or compensated after a failure); each   *)
(* call that pops takes exactly one record off the queue, so n queued      *)
(* records are gone after n calls with no schedule in between.             *)
C15_EventuallyProcessed ==
    /\ \A k \in 1..MaxSchedules :
         (NumScheduled >= k) ~> (Status(k) \in {"Executed", "Compensated"})
    /\ (queue # <<>>) ~> (queue = <<>>)
    /\ [][NumPopped' = NumPopped + 1 => Len(queue') = Len(queue) - 1]_vars

C15_Witness ==
    /\ NumScheduled = MaxSchedules
    /\ queue = <<>>
    /\ \A k \in 1..NumScheduled : Status(k) \in {"Executed", "Compensated"}
    /\ \E k \in 1..NumScheduled : Status(k) = "Compensated"
    /\ InFlight = {}

(* ======================== observer.py ================================= *)
set_discard_noop(S, o) == S

(* set.discard *)
set_discard(S, o) == S \ {o}

register_observer(o) ==
    /\ notifying = None
    /\ observers' = observers \cup {o}
    /\ obs_registered' = obs_registered \cup {o}
    /\ UNCHANGED <<received, notifying, obs_pending, expected, num_notifies>>
    /\ UNCHANGED notObs

unregister_observer(o) ==
    /\ notifying = None
    /\ observers' = set_discard(observers, o)
    /\ obs_registered' = obs_registered \ {o}
    /\ UNCHANGED <<received, notifying, obs_pending, expected, num_notifies>>
    /\ UNCHANGED notObs

(* notify_observers: the for loop starts over the observers in the set *)
notify_observers_begin(n) ==
    /\ notifying = None
    /\ num_notifies < MaxNotifies
    /\ num_notifies' = num_notifies + 1
    /\ notifying' = n
    /\ obs_pending' = observers
    /\ expected' = [o \in Observers |->
                        IF o \in obs_registered THEN Append(expected[o], n)
                                                ELSE expected[o]]
    /\ UNCHANGED <<observers, received, obs_registered>>
    /\ UNCHANGED notObs

(* one iteration: observer.update(event, data); set order is arbitrary *)
notify_observers_update(o) ==
    /\ notifying # None
    /\ o \in obs_pending
    /\ received' = [received EXCEPT ![o] = Append(@, notifying)]
    /\ obs_pending' = obs_pending \ {o}
    /\ UNCHANGED <<observers, notifying, obs_registered, expected, num_notifies>>
    /\ UNCHANGED notObs

(* the loop is exhausted and notify_observers returns *)
notify_observers_return ==
    /\ notifying # None
    /\ obs_pending = {}
    /\ notifying' = None
    /\ UNCHANGED <<observers, received, obs_pending, obs_registered, expected,
                   num_notifies>>
    /\ UNCHANGED notObs


NextObserver ==
    \/ \E o \in Observers : register_observer(o)
    \/ \E o \in Observers : unregister_observer(o)
    \/ \E n \in Notifications : notify_observers_begin(n)
    \/ \E o \in Observers : notify_observers_update(o)
    \/ notify_observers_return

SpecObserver == Init /\ [][NextObserver]_vars

(* C16: each notify_observers call hands its (event, data) exactly once to *)
(* every observer registered at that moment and to no other; an observer   *)
(* that was unregistered is handed nothing from then on.                   *)
C16_NotifyExactlyRegistered ==
    \A o \in Observers :
        IF notifying # None /\ o \in obs_pending
        THEN Append(received[o], notifying) = expected[o]
        ELSE received[o] = expected[o]

C16_Witness ==
    /\ notifying = None
    /\ \E a, b, c \in Observers :
         /\ Len(received[a]) = 1 /\ a \notin obs_registered
         /\ Len(received[b]) = 2
         /\ Len(received[c]) = 0

(* ======================== memento.py ================================== *)
RefsOf(r) == IF r = None THEN {} ELSE {r[f] : f \in Fields}

(* identity of a newly created object: one that nothing in use refers to *)
NewRef(used) == CHOOSE i \in Objs : i \notin used /\ \A j \in Objs \ used : i <= j

(* Object identities are arbitrary: after every operation the objects are *)
(* renamed after their holder (1..3 the orchestrator's dicts, 4..6 the     *)
(* memento's own) and the objects nothing refers to are reclaimed.         *)
FieldAt(i) ==
    IF i = 1 THEN "offsets" ELSE IF i = 2 THEN "schema_versions" ELSE "credentials"
SlotOf(f) == CHOOSE i \in 1..3 : FieldAt(i) = f
NameOf(o, m, r) ==
    IF r \in RefsOf(o)
    THEN SlotOf(CHOOSE f \in Fields : o[f] = r)
    ELSE 3 + SlotOf(CHOOSE f \in Fields : m[f] = r)

Canon(h, o, m) ==
    [orchestrator |-> [f \in Fields |-> NameOf(o, m, o[f])],
     memento |-> IF m = None THEN None ELSE [f \in Fields |-> NameOf(o, m, m[f])],
     heap |-> [i \in Objs |->
                 IF i <= 3 THEN h[o[FieldAt(i)]]
                 ELSE IF i <= 6 /\ m # None /\ m[FieldAt(i - 3)] \notin RefsOf(o)
                      THEN h[m[FieldAt(i - 3)]]
                      ELSE {}]]


deepcopy_alias(h, r, used) == [heap |-> h, ref |-> r]

(* copy.deepcopy: a new object with equal content *)
deepcopy(h, r, used) ==
    LET n == NewRef(used) IN [heap |-> [h EXCEPT ![n] = h[r]], ref |-> n]

(* PipelineMemento._secure_credentials: f"secured_{v}" for every item *)
secure_credentials(credentials) ==
    {<<item[1], <<"secured_">> \o item[2]>> : item \in credentials}


(* orchestrator.current_<f> = {...}: the attribute is bound to a new dict *)
assign_state(f, d) ==
    /\ LET n == NewRef(RefsOf(orchestrator) \cup RefsOf(memento))
           o == [orchestrator EXCEPT ![f] = n]
       IN  LET k == Canon([mheap EXCEPT ![n] = d], o, memento)
               IN  /\ mheap' = k.heap
                   /\ orchestrator' = k.orchestrator
                   /\ memento' = k.memento
    /\ changed' = TRUE
    /\ last_op' = "assign"
    /\ UNCHANGED checkpoint
    /\ UNCHANGED notMem

(* orchestrator.current_<f>[k] = v: the dict object itself is altered *)
mutate_state(f, d) ==
    /\ mheap[orchestrator[f]] # d
    /\ mheap' = [mheap EXCEPT ![orchestrator[f]] = d]
    /\ changed' = TRUE
    /\ last_op' = "mutate"
    /\ UNCHANGED <<orchestrator, memento, checkpoint>>
    /\ UNCHANGED notMem

(* create_memento, with PipelineMemento.__init__ *)
create_memento ==
    /\ \A item \in mheap[orchestrator.credentials] : Len(item[2]) <= MaxSecured
    /\ LET used == RefsOf(orchestrator)
           o == deepcopy(mheap, orchestrator.offsets, used)
           v == deepcopy(o.heap, orchestrator.schema_versions, used \cup {o.ref})
           c == NewRef(used \cup {o.ref, v.ref})
           h == [v.heap EXCEPT ![c] = secure_credentials(v.heap[orchestrator.credentials])]
           m == [offsets |-> o.ref, schema_versions |-> v.ref, credentials |-> c]
       IN  LET k == Canon(h, orchestrator, m)
               IN  /\ mheap' = k.heap
                   /\ orchestrator' = k.orchestrator
                   /\ memento' = k.memento
    /\ checkpoint' = [f \in Fields |-> mheap[orchestrator[f]]]
    /\ changed' = FALSE
    /\ last_op' = "create_memento"
    /\ UNCHANGED notMem

(* restore_from_memento, with the three properties of PipelineMemento *)
restore_from_memento ==
    /\ memento # None
    /\ LET used == RefsOf(memento)
           o == deepcopy(mheap, memento.offsets, used)
           v == deepcopy(o.heap, memento.schema_versions, used \cup {o.ref})
           c == deepcopy(v.heap, memento.credentials, used \cup {o.ref, v.ref})
           n == [offsets |-> o.ref, schema_versions |-> v.ref, credentials |-> c.ref]
       IN  LET k == Canon(c.heap, n, memento)
               IN  /\ mheap' = k.heap
                   /\ orchestrator' = k.orchestrator
                   /\ memento' = k.memento
    /\ last_op' = "restore_from_memento"
    /\ UNCHANGED <<checkpoint, changed>>
    /\ UNCHANGED notMem


NextMemento ==
    \/ \E f \in Fields : \E d \in StateDicts(f) : assign_state(f, d)
    \/ \E f \in Fields : \E d \in StateDicts(f) : mutate_state(f, d)
    \/ create_memento
    \/ restore_from_memento

SpecMemento == Init /\ [][NextMemento]_vars

(* C17: restore_from_memento sets the orchestrator's offsets and schema    *)
(* versions to exactly what they were at create_memento, and each          *)
(* credential to its value at create_memento prefixed with 'secured_',     *)
(* whatever was done to the orchestrator's state in between.               *)
C17_RestoreReturnsCheckpoint ==
    last_op = "restore_from_memento"
    => /\ mheap[orchestrator.offsets] = checkpoint.offsets
       /\ mheap[orchestrator.schema_versions] = checkpoint.schema_versions
       /\ mheap[orchestrator.credentials] =
             {<<item[1], <<"secured_">> \o item[2]>> : item \in checkpoint.credentials}

C17_Witness ==
    /\ last_op = "restore_from_memento"
    /\ changed
    /\ mheap[orchestrator.offsets] = {<<"sourceA", 50>>}
    /\ mheap[orchestrator.schema_versions] = {<<"sourceA", "v2.0">>}
    /\ mheap[orchestrator.credentials] = {<<"api_key", <<"secured_", "key123">>>>}

(* ================== chain_of_responsibility.py ======================= *)
priority_reversed(h) ==
    IF h = RoutingHandler THEN 1
    ELSE IF h = AuthorizationHandler THEN 2
    ELSE IF h = EnrichmentHandler THEN 3
    ELSE 4

(* the priority each handler is constructed with in build_handler_chain *)
priority(h) ==
    IF h = RoutingHandler THEN 4
    ELSE IF h = AuthorizationHandler THEN 3
    ELSE IF h = EnrichmentHandler THEN 2
    ELSE 1

(* the next_handler each handler is constructed with *)
constructed_next(h) ==
    IF h = RoutingHandler THEN None
    ELSE IF h = AuthorizationHandler THEN RoutingHandler
    ELSE IF h = EnrichmentHandler THEN AuthorizationHandler
    ELSE EnrichmentHandler

(* the list handlers as written in build_handler_chain *)
handlers ==
    <<ValidationHandler, EnrichmentHandler, AuthorizationHandler, RoutingHandler>>

(* list.sort(key=lambda h: h.priority): ascending and stable *)
sort(hs) ==
    LET n == Len(hs)
        order == CHOOSE f \in [1..n -> 1..n] :
                    /\ \A i, j \in 1..n : i # j => f[i] # f[j]
                    /\ \A i, j \in 1..n :
                          i < j => \/ priority(hs[f[i]]) < priority(hs[f[j]])
                                   \/ /\ priority(hs[f[i]]) = priority(hs[f[j]])
                                      /\ f[i] < f[j]
    IN  [i \in 1..n |-> hs[order[i]]]

(* for i in range(len(handlers) - 1): handlers[i].next_handler = handlers[i + 1] *)
relink(hs) ==
    [h \in Handlers |->
        IF \E i \in 1..(Len(hs) - 1) : hs[i] = h
        THEN hs[(CHOOSE i \in 1..(Len(hs) - 1) : hs[i] = h) + 1]
        ELSE constructed_next(h)]

build_handler_chain ==
    /\ chain_pc = "start"
    /\ LET sorted == sort(handlers)
       IN  /\ next_handler' = relink(sorted)
           /\ head' = sorted[1]
    /\ chain_pc' = "built"
    /\ UNCHANGED <<event, passed, current, handled, chain_result>>
    /\ UNCHANGED notChain

(* handler_chain.handle(event) is called on the head of the chain *)
handle_call(e) ==
    /\ chain_pc \in {"built", "done"}
    /\ event' = e
    /\ passed' = e
    /\ current' = head
    /\ handled' = <<>>
    /\ chain_result' = NotCalled
    /\ chain_pc' = "handling"
    /\ UNCHANGED <<next_handler, head>>
    /\ UNCHANGED notChain

(* if self.next_handler: return self.next_handler.handle(event); return event *)
pass_on(h) ==
    IF next_handler[h] # None
    THEN /\ current' = next_handler[h]
         /\ UNCHANGED <<chain_result, chain_pc>>
    ELSE /\ current' = None
         /\ chain_result' = Returned
         /\ chain_pc' = "done"

falsy_none_only(x) == x = None

(* not x, for x a str or None *)
falsy(x) == x = None \/ x = Str("")

MissingEventId == [cls |-> "ValueError", msg |-> "Invalid event: missing event_id"]

ValidationHandler_handle ==
    /\ chain_pc = "handling"
    /\ current = ValidationHandler
    /\ handled' = Append(handled, current)
    /\ IF falsy(event.event_id)
       THEN /\ chain_result' = Raised(MissingEventId)
            /\ current' = None
            /\ chain_pc' = "done"
       ELSE pass_on(current)
    /\ UNCHANGED <<next_handler, head, event, passed>>
    /\ UNCHANGED notChain

EnrichmentHandler_handle ==
    /\ chain_pc = "handling"
    /\ current = EnrichmentHandler
    /\ handled' = Append(handled, current)
    /\ event' = [event EXCEPT !.payload =
                    [k \in DOMAIN @ \cup {"enriched"} |->
                        IF k = "enriched" THEN TRUE ELSE @[k]]]
    /\ pass_on(current)
    /\ UNCHANGED <<next_handler, head, passed>>
    /\ UNCHANGED notChain

AuthorizationHandler_handle ==
    /\ chain_pc = "handling"
    /\ current = AuthorizationHandler
    /\ handled' = Append(handled, current)
    /\ event' = [event EXCEPT !.authorized = TRUE]
    /\ pass_on(current)
    /\ UNCHANGED <<next_handler, head, passed>>
    /\ UNCHANGED notChain

RoutingHandler_handle ==
    /\ chain_pc = "handling"
    /\ current = RoutingHandler
    /\ handled' = Append(handled, current)
    /\ event' = [event EXCEPT !.route = Str("default_route")]
    /\ pass_on(current)
    /\ UNCHANGED <<next_handler, head, passed>>
    /\ UNCHANGED notChain


NextChain ==
    \/ build_handler_chain
    \/ \E e \in Events : handle_call(e)
    \/ ValidationHandler_handle
    \/ EnrichmentHandler_handle
    \/ AuthorizationHandler_handle
    \/ RoutingHandler_handle

SpecChain == Init /\ [][NextChain]_vars


(* C18: for an event with a non-empty event_id, validation, enrichment,    *)
(* authorization and routing run in that order, each exactly once; the     *)
(* traversal ends after routing and returns the event with                 *)
(* payload['enriched'] = True, authorized = True, route = 'default_route'. *)
C18_ChainRunsInOrder ==
    (chain_pc \in {"handling", "done"} /\ ~falsy(passed.event_id))
    => /\ Len(handled) <= Len(handlers)
       /\ \A i \in 1..Len(handled) : handled[i] = handlers[i]
       /\ chain_pc = "handling" => current \in Handlers /\ Len(handled) < Len(handlers)
       /\ chain_pc = "done"
          => /\ handled = handlers
             /\ chain_result = Returned
             /\ event.event_id = passed.event_id
             /\ event.payload["enriched"] = TRUE
             /\ event.payload["data"] = passed.payload["data"]
             /\ event.authorized = TRUE
             /\ event.route = Str("default_route")

C18_Witness ==
    /\ chain_pc = "done"
    /\ passed = Event(Str("evt_123"), [data |-> "sample"], FALSE, None)
    /\ handled = handlers
    /\ chain_result = Returned
    /\ event.route = Str("default_route")

(* C19: for an event whose event_id is missing or empty, validation raises *)
(* ValueError('Invalid event: missing event_id'), no later handler runs,   *)
(* and payload, authorized and route are as they were passed in.           *)
C19_MissingIdShortCircuits ==
    (chain_pc \in {"handling", "done"} /\ passed.event_id \in {None, Str("")})
    => /\ handled \in {<<>>, <<ValidationHandler>>}
       /\ event = passed
       /\ chain_pc = "done"
          => /\ handled = <<ValidationHandler>>
             /\ chain_result = Raised(MissingEventId)

C19_Witness ==
    /\ chain_pc = "done"
    /\ passed.event_id = Str("")
    /\ chain_result = Raised(MissingEventId)
    /\ handled = <<ValidationHandler>>

(* ========================= decorator.py =============================== *)
get_client_retry_outside(enable_retries, enable_tracing, retries) ==
    /\ dec_pc \in {"start", "idle", "done"}
    /\ config' = [enable_retries |-> enable_retries, enable_tracing |-> enable_tracing,
                  retries |-> retries]
    /\ client' = (IF enable_retries THEN <<RetryingClient(retries)>> ELSE <<>>)
                  \o (IF enable_tracing THEN <<TracingClient>> ELSE <<>>)
    /\ call' = [method |-> "", user_id |-> ""]
    /\ level' = 0
    /\ attempt' = 0
    /\ ret' = NotCalled
    /\ call_result' = NotCalled
    /\ out' = <<>>
    /\ dec_pc' = "idle"
    /\ UNCHANGED notDec

(* ParagonClientConfig(...).get_client(): retry around the base, tracing around that *)
get_client(enable_retries, enable_tracing, retries) ==
    /\ dec_pc \in {"start", "idle", "done"}
    /\ config' = [enable_retries |-> enable_retries, enable_tracing |-> enable_tracing,
                  retries |-> retries]
    /\ client' = (IF enable_tracing THEN <<TracingClient>> ELSE <<>>)
                  \o (IF enable_retries THEN <<RetryingClient(retries)>> ELSE <<>>)
    /\ call' = [method |-> "", user_id |-> ""]
    /\ level' = 0
    /\ attempt' = 0
    /\ ret' = NotCalled
    /\ call_result' = NotCalled
    /\ out' = <<>>
    /\ dec_pc' = "idle"
    /\ UNCHANGED notDec

(* client.get_user(user_id) / client.update_user(user_id, data) *)
client_call(method, user_id) ==
    /\ dec_pc \in {"idle", "done"}
    /\ call' = [method |-> method, user_id |-> user_id]
    /\ level' = 1
    /\ attempt' = 0
    /\ ret' = NotCalled
    /\ call_result' = NotCalled
    /\ out' = <<>>
    /\ dec_pc' = "enter"
    /\ UNCHANGED <<config, client>>
    /\ UNCHANGED notDec


(* ParagoNClient.get_user / update_user *)
ParagoNClient_call ==
    /\ dec_pc = "enter"
    /\ level = Len(client) + 1
    /\ IF call.method = "get_user"
       THEN /\ out' = Append(out, "Fetching user")
            /\ ret' = Ret([cls |-> "dict", user_id |-> call.user_id, name |-> "John Doe"])
       ELSE /\ out' = Append(out, "Updating user")
            /\ ret' = Ret([cls |-> "bool", val |-> TRUE])
    /\ level' = level - 1
    /\ dec_pc' = "leave"
    /\ UNCHANGED <<config, client, call, attempt, call_result>>
    /\ UNCHANGED notDec

(* TracingClient.trace_func up to func(...) *)
TracingClient_enter ==
    /\ dec_pc = "enter"
    /\ level \in 1..Len(client)
    /\ client[level].cls = "TracingClient"
    /\ out' = Append(out, "Tracing start")
    /\ level' = level + 1
    /\ UNCHANGED <<config, client, call, attempt, ret, call_result, dec_pc>>
    /\ UNCHANGED notDec

TracingClient_leave_always_end ==
    /\ dec_pc = "leave"
    /\ level \in 1..Len(client)
    /\ client[level].cls = "TracingClient"
    /\ out' = Append(out, "Tracing end")
    /\ level' = level - 1
    /\ UNCHANGED <<config, client, call, attempt, ret, call_result, dec_pc>>
    /\ UNCHANGED notDec

(* TracingClient.trace_func after func(...) returned or raised *)
TracingClient_leave ==
    /\ dec_pc = "leave"
    /\ level \in 1..Len(client)
    /\ client[level].cls = "TracingClient"
    /\ out' = Append(out, IF ret.how = "return" THEN "Tracing end" ELSE "Tracing error")
    /\ level' = level - 1
    /\ UNCHANGED <<config, client, call, attempt, ret, call_result, dec_pc>>
    /\ UNCHANGED notDec

(* except Exception as e: ... if attempt == self.retries - 1: raise e *)
retry_except(e, printed) ==
    /\ out' = Append(printed, "Error on attempt")
    /\ IF attempt = client[level].retries - 1
       THEN /\ ret' = [how |-> "raise", exc |-> e]
            /\ level' = level - 1
            /\ dec_pc' = "leave"
            /\ UNCHANGED attempt
       ELSE /\ attempt' = attempt + 1
            /\ dec_pc' = "enter"
            /\ UNCHANGED <<ret, level>>

(* one iteration of the loop of RetryingClient.retry_func, up to func(...) *)
RetryingClient_attempt ==
    /\ dec_pc = "enter"
    /\ level \in 1..Len(client)
    /\ client[level].cls = "RetryingClient"
    /\ IF attempt >= client[level].retries
       THEN /\ ret' = Ret(None)
            /\ level' = level - 1
            /\ dec_pc' = "leave"
            /\ UNCHANGED <<attempt, out>>
       ELSE \E random_below_03 \in BOOLEAN :
              IF random_below_03
              THEN retry_except(SimulatedNetworkError, Append(out, "Attempt"))
              ELSE /\ out' = Append(out, "Attempt")
                   /\ level' = level + 1
                   /\ UNCHANGED <<attempt, ret, dec_pc>>
    /\ UNCHANGED <<config, client, call, call_result>>
    /\ UNCHANGED notDec

(* RetryingClient.retry_func after func(...) returned or raised *)
RetryingClient_leave ==
    /\ dec_pc = "leave"
    /\ level \in 1..Len(client)
    /\ client[level].cls = "RetryingClient"
    /\ IF ret.how = "return"
       THEN /\ level' = level - 1
            /\ UNCHANGED <<attempt, ret, out, dec_pc>>
       ELSE retry_except(ret.exc, out)
    /\ UNCHANGED <<config, client, call, call_result>>
    /\ UNCHANGED notDec

(* the outermost layer hands its result to the caller *)
call_return ==
    /\ dec_pc = "leave"
    /\ level = 0
    /\ call_result' = ret
    /\ dec_pc' = "done"
    /\ UNCHANGED <<config, client, call, level, attempt, ret, out>>
    /\ UNCHANGED notDec


NextDecorator ==
    \/ \E er, et \in BOOLEAN, n \in 1..MaxRetries : get_client(er, et, n)
    \/ \E m \in Methods, u \in UserIds : client_call(m, u)
    \/ ParagoNClient_call
    \/ TracingClient_enter
    \/ TracingClient_leave
    \/ RetryingClient_attempt
    \/ RetryingClient_leave
    \/ call_return

SpecDecorator == Init /\ [][NextDecorator]_vars

(* C20: a call through RetryingClient returns the wrapped client's result: *)
(* get_user(id) on RetryingClient(base, retries=5) returns the record      *)
(* whose user_id is id, and update_user through a retrying client returns  *)
(* True.                                                                   *)
C20_RetryingReturnsResult ==
    dec_pc = "done"
    => /\ (client = <<RetryingClient(5)>> /\ call.method = "get_user")
          => /\ call_result.how = "return"
             /\ call_result.val.cls = "dict"
             /\ call_result.val.user_id = call.user_id
       /\ ((\E i \in 1..Len(client) : client[i].cls = "RetryingClient")
              /\ call.method = "update_user")
          => call_result = Ret([cls |-> "bool", val |-> TRUE])

(* ========================= flyweight.py =============================== *)
lock_free_always(l) == TRUE

(* threading.Lock: acquired only when no thread holds it *)
lock_free(l) == l = NoTask

(* a thread evaluates MetadataFlyweight(descriptor_id, **attributes) *)
flyweight_call(t, descriptor_id, attributes) ==
    /\ fw_pc[t] = "idle"
    /\ fw_args' = [fw_args EXCEPT ![t] =
                      [descriptor_id |-> descriptor_id, attributes |-> attributes]]
    /\ fw_pc' = [fw_pc EXCEPT ![t] = "acquire"]
    /\ UNCHANGED <<registry, lock, fw_ret, num_created, notFw>>

(* with cls._lock: *)
flyweight_acquire(t) ==
    /\ fw_pc[t] = "acquire"
    /\ lock_free(lock)
    /\ lock' = t
    /\ fw_pc' = [fw_pc EXCEPT ![t] = "check"]
    /\ UNCHANGED <<registry, fw_args, fw_ret, num_created, notFw>>

(* if descriptor_id not in cls._registry: *)
flyweight_check(t) ==
    /\ fw_pc[t] = "check"
    /\ fw_pc' = [fw_pc EXCEPT ![t] =
                    IF registry[fw_args[t].descriptor_id] = None THEN "create"
                                                                 ELSE "return"]
    /\ UNCHANGED <<registry, lock, fw_args, fw_ret, num_created, notFw>>

(* the body of the if: a new instance is created, filled in and registered *)
flyweight_create(t) ==
    /\ fw_pc[t] = "create"
    /\ LET d == fw_args[t].descriptor_id
       IN  /\ num_created' = [num_created EXCEPT ![d] = @ + 1]
           /\ registry' = [registry EXCEPT ![d] =
                              [cls |-> "MetadataFlyweight",
                               object |-> num_created[d] + 1,
                               descriptor_id |-> d,
                               attributes |-> fw_args[t].attributes]]
    /\ fw_pc' = [fw_pc EXCEPT ![t] = "return"]
    /\ UNCHANGED <<lock, fw_args, fw_ret, notFw>>

(* return cls._registry[descriptor_id], leaving the with block *)
flyweight_return(t) ==
    /\ fw_pc[t] = "return"
    /\ fw_ret' = [fw_ret EXCEPT ![t] = registry[fw_args[t].descriptor_id]]
    /\ lock' = NoTask
    /\ fw_pc' = [fw_pc EXCEPT ![t] = "idle"]
    /\ UNCHANGED <<registry, fw_args, num_created, notFw>>

NextFlyweight ==
    \/ \E t \in Threads, d \in DescriptorIds, a \in {"v1", "v2"} : flyweight_call(t, d, a)
    \/ \E t \in Threads : flyweight_acquire(t)
    \/ \E t \in Threads : flyweight_check(t)
    \/ \E t \in Threads : flyweight_create(t)
    \/ \E t \in Threads : flyweight_return(t)

SpecFlyweight == Init /\ [][NextFlyweight]_vars

(* C21: for every descriptor id at most one instance is ever created, even *)
(* when threads construct concurrently; the registry entry of an id, once  *)
(* set, stays the same instance, and every construction with that id       *)
(* returns that instance.                                                  *)
C21_OneSharedInstance ==
    /\ [](/\ \A d \in DescriptorIds : num_created[d] <= 1
          /\ \A t \in Threads :
                fw_ret[t] # None => fw_ret[t] = registry[fw_ret[t].descriptor_id])
    /\ [][\A d \in DescriptorIds :
            registry[d] # None => registry'[d] = registry[d]]_vars

C21_Witness ==
    /\ \E t, u \in Threads :
         /\ t # u
         /\ fw_ret[t] # None
         /\ fw_ret[u] = fw_ret[t]
         /\ fw_args[t].attributes # fw_args[u].attributes
         /\ fw_pc[t] = "idle" /\ fw_pc[u] = "idle"
    /\ \A d \in DescriptorIds : num_created[d] = 1

(* C22: get_client applies exactly the wrappers the config enables, in a   *)
(* fixed order: tracing outermost, then retrying with the configured retry *)
(* count, then the base client; a disabled wrapper is absent and with both *)
(* disabled the client is the bare ParagoNClient.                          *)
C22_GetClientComposition ==
    dec_pc # "start"
    => /\ (config.enable_tracing /\ config.enable_retries)
          => client = <<TracingClient, RetryingClient(config.retries)>>
       /\ (config.enable_tracing /\ ~config.enable_retries)
          => client = <<TracingClient>>
       /\ (~config.enable_tracing /\ config.enable_retries)
          => client = <<RetryingClient(config.retries)>>
       /\ (~config.enable_tracing /\ ~config.enable_retries)
          => client = <<>>

C22_Witness ==
    /\ config = [enable_retries |-> TRUE, enable_tracing |-> TRUE, retries |-> 2]
    /\ client = <<TracingClient, RetryingClient(2)>>
    /\ dec_pc = "done"
    /\ call.method = "update_user"
    /\ call_result = Ret([cls |-> "bool", val |-> TRUE])

(* C23: every call through TracingClient prints "Tracing start" before the *)
(* wrapped call and then exactly one of "Tracing end", after which the     *)
(* wrapped call's result is returned unchanged, or "Tracing error", after  *)
(* which the wrapped call's error is raised again.                         *)
C23_TracingStartThenEndOrError ==
    /\ [](\/ dec_pc # "done"
          \/ client = <<>>
          \/ client[1] # TracingClient
          \/ /\ out[1] = "Tracing start"
             /\ Cardinality({i \in 1..Len(out) : out[i] = "Tracing start"}) = 1
             /\ Cardinality({i \in 1..Len(out) :
                               out[i] \in {"Tracing end", "Tracing error"}}) = 1
             /\ \/ /\ out[Len(out)] = "Tracing end"
                   /\ call_result.how = "return"
                \/ /\ out[Len(out)] = "Tracing error"
                   /\ call_result.how = "raise")
    /\ [][/\ out' = Append(out, "Tracing start")
             => (dec_pc = "enter" /\ ret = NotCalled
                 /\ ~\E i \in 1..Len(out) : out[i] \in {"Fetching user", "Updating user"})
          /\ out' = Append(out, "Tracing end")
             => (ret.how = "return" /\ ret' = ret)
          /\ out' = Append(out, "Tracing error")
             => (ret.how = "raise" /\ ret' = ret)
          /\ (dec_pc' = "done" /\ dec_pc # "done" /\ client # <<>>
              /\ client[1] = TracingClient)
             => (call_result' = ret
                 /\ out[Len(out)] \in {"Tracing end", "Tracing error"})]_vars

C23_Witness ==
    /\ client = <<TracingClient, RetryingClient(1)>>
    /\ dec_pc = "done"
    /\ call.method = "get_user"
    /\ out = <<"Tracing start", "Attempt", "Error on attempt", "Tracing error">>
    /\ call_result = [how |-> "raise", exc |-> SimulatedNetworkError]

(* ========================= abstract_factory.py ======================== *)
(* class Provider(Enum): the members, by name and value *)
Provider ==
    {[cls |-> "Provider", name |-> "PARAGON", value |-> "paragon"],
     [cls |-> "Provider", name |-> "ANOTHER_API", value |-> "another_api"],
     [cls |-> "Provider", name |-> "Mock", value |-> "mock"]}

(* Provider.<name>: the member of that name, AttributeError when there is none *)
Provider_getattr(name) ==
    IF \E m \in Provider : m.name = name
    THEN Ret(CHOOSE m \in Provider : m.name = name)
    ELSE Raised([cls |-> "AttributeError", msg |-> name])

(* load_factory(provider_name) *)
load_factory(provider) ==
    /\ provider_name' = provider
    /\ factory' =
         IF Ret(provider) = Provider_getattr("PARAGON")
         THEN Ret([cls |-> "ParagoNClientFactory"])
         ELSE IF Provider_getattr("MOCK").how = "raise"
              THEN Provider_getattr("MOCK")
              ELSE IF Ret(provider) = Provider_getattr("MOCK")
                   THEN Ret([cls |-> "MockClientFactory"])
                   ELSE Raised([cls |-> "ValueError",
                                msg |-> "Unknown provider: " \o provider.value])
    /\ created' = <<>>
    /\ UNCHANGED notAf

(* ParagoNClientFactory / MockClientFactory: the class the factory's method returns *)
client_class(kind) ==
    IF factory.val.cls = "ParagoNClientFactory"
    THEN [cls |-> "ParagoN" \o kind]
    ELSE [cls |-> "Mock" \o kind]

create_auth_client ==
    /\ factory.how = "return"
    /\ Len(created) < MaxClients
    /\ created' = Append(created, client_class("AuthClient"))
    /\ UNCHANGED <<provider_name, factory>>
    /\ UNCHANGED notAf

create_data_client ==
    /\ factory.how = "return"
    /\ Len(created) < MaxClients
    /\ created' = Append(created, client_class("DataClient"))
    /\ UNCHANGED <<provider_name, factory>>
    /\ UNCHANGED notAf

create_webhook_client ==
    /\ factory.how = "return"
    /\ Len(created) < MaxClients
    /\ created' = Append(created, client_class("WebhookClient"))
    /\ UNCHANGED <<provider_name, factory>>
    /\ UNCHANGED notAf

NextAbstractFactory ==
    \/ \E provider \in Provider : load_factory(provider)
    \/ create_auth_client
    \/ create_data_client
    \/ create_webhook_client

SpecAbstractFactory == Init /\ [][NextAbstractFactory]_vars

(* C24: load_factory returns a factory of one client family: for the       *)
(* ParagoN provider the auth, data and webhook clients are all ParagoN     *)
(* clients, for the mock member of Provider they are all Mock clients, and *)
(* for any other provider it raises ValueError('Unknown provider: ...').   *)
C24_LoadFactoryFamily ==
    provider_name # None
    => /\ provider_name.name = "PARAGON"
          => /\ factory = Ret([cls |-> "ParagoNClientFactory"])
             /\ \A i \in 1..Len(created) :
                    created[i].cls \in {"ParagoNAuthClient", "ParagoNDataClient",
                                        "ParagoNWebhookClient"}
       /\ provider_name.name = "Mock"
          => /\ factory = Ret([cls |-> "MockClientFactory"])
             /\ \A i \in 1..Len(created) :
                    created[i].cls \in {"MockAuthClient", "MockDataClient",
                                        "MockWebhookClient"}
       /\ provider_name.name \notin {"PARAGON", "Mock"}
          => factory = Raised([cls |-> "ValueError",
                               msg |-> "Unknown provider: " \o provider_name.value])

(* ========================= builder.py ================================= *)
(* SparkJobSpec.__slots__ *)
slots ==
    {"input_source", "transforms", "windowing", "triggers", "resources",
     "monitoring_hooks", "spec_version"}

(* the arguments callers pass to the builder's setters and assign to a spec *)
SetterArgs(name) ==
    CASE name \in {"transforms", "monitoring_hooks"} ->
           {[cls |-> "list", items |-> <<"dedupe">>]}
      [] name = "resources" ->
           {[cls |-> "dict", items |-> <<[key |-> "executors", val |-> 2]>>]}
      [] name = "spec_version" -> {Str("2.0")}
      [] OTHER -> {Str("kafka")}

(* tuple(iterable) *)
tuple(iterable) == [cls |-> "tuple", items |-> iterable.items]

hasattr_never(obj, key) == FALSE

(* hasattr(self, key) on an object with __slots__: the slot has been set *)
hasattr(obj, key) == key \in DOMAIN obj

(* SparkJobBuilder.input_source, set_transforms, windowing, triggers,      *)
(* resources, monitoring_hooks, spec_version: self._<name> = value         *)
SparkJobBuilder_set(name, value) ==
    /\ builder' = [builder EXCEPT ![name] = value]
    /\ UNCHANGED <<spec, spec_error>>
    /\ UNCHANGED notBld

(* SparkJobBuilder.build -> SparkJobSpec.__init__; deepcopy(resources) is   *)
(* an equal dict of its own, and nothing here changes a dict in place      *)
build ==
    /\ spec = None
    /\ spec' = [input_source |-> builder.input_source,
                transforms |-> tuple(builder.transforms),
                windowing |-> builder.windowing,
                triggers |-> builder.triggers,
                resources |-> builder.resources,
                monitoring_hooks |-> tuple(builder.monitoring_hooks),
                spec_version |-> builder.spec_version]
    /\ UNCHANGED <<builder, spec_error>>
    /\ UNCHANGED notBld

(* SparkJobSpec.__setattr__: spec.<key> = value; SparkJobSpec has no       *)
(* __dict__, so object.__setattr__ stores into a slot only                 *)
SparkJobSpec___setattr__(key, value) ==
    /\ spec # None
    /\ IF hasattr(spec, key)
       THEN /\ spec_error' = Raised([cls |-> "AttributeError",
                                     msg |-> "Cannot modify immutable SparkJobSpec"])
            /\ UNCHANGED spec
       ELSE IF key \in slots
            THEN /\ spec' = [k \in DOMAIN spec \cup {key} |->
                                IF k = key THEN value ELSE spec[k]]
                 /\ spec_error' = Returned
            ELSE /\ spec_error' = Raised([cls |-> "AttributeError",
                                          msg |-> "no attribute " \o key])
                 /\ UNCHANGED spec
    /\ UNCHANGED builder
    /\ UNCHANGED notBld

(* SparkJobSpec.__delattr__: del spec.<key> *)
SparkJobSpec___delattr__(key) ==
    /\ spec # None
    /\ spec_error' = Raised([cls |-> "AttributeError", msg |-> "SparkJobSpec is immutable"])
    /\ UNCHANGED <<builder, spec>>
    /\ UNCHANGED notBld

NextBuilder ==
    \/ \E v \in SetterArgs("input_source") : SparkJobBuilder_set("input_source", v)
    \/ \E v \in SetterArgs("transforms") : SparkJobBuilder_set("transforms", v)
    \/ \E v \in SetterArgs("windowing") : SparkJobBuilder_set("windowing", v)
    \/ \E v \in SetterArgs("triggers") : SparkJobBuilder_set("triggers", v)
    \/ \E v \in SetterArgs("resources") : SparkJobBuilder_set("resources", v)
    \/ \E v \in SetterArgs("monitoring_hooks") : SparkJobBuilder_set("monitoring_hooks", v)
    \/ \E v \in SetterArgs("spec_version") : SparkJobBuilder_set("spec_version", v)
    \/ build
    \/ \E key \in slots \cup {"owner"} : \E v \in SetterArgs(key) :
          SparkJobSpec___setattr__(key, v)
    \/ \E key \in slots \cup {"owner"} : SparkJobSpec___delattr__(key)

SpecBuilder == Init /\ [][NextBuilder]_vars

(* C25: a SparkJobSpec returned by SparkJobBuilder.build is immutable:     *)
(* every later assignment to or deletion of one of its fields raises       *)
(* AttributeError and leaves the spec as it was, and later setter calls on *)
(* the builder do not change the fields of the spec already built.         *)
C25_BuiltSpecImmutable ==
    /\ [](/\ spec_error # NotCalled
             => (spec_error.how = "raise" /\ spec_error.exc.cls = "AttributeError")
          /\ spec # None
             => (/\ DOMAIN spec = slots
                 /\ spec.transforms.cls = "tuple"
                 /\ spec.monitoring_hooks.cls = "tuple"))
    /\ [][spec # None => spec' = spec]_vars

C25_Witness ==
    /\ spec # None
    /\ spec.transforms = [cls |-> "tuple", items |-> <<>>]
    /\ spec.input_source = Str("kafka")
    /\ builder.transforms = [cls |-> "list", items |-> <<"dedupe">>]
    /\ builder.spec_version = Str("2.0")
    /\ spec.spec_version = Str("1.0")
    /\ spec_error = Raised([cls |-> "AttributeError",
                            msg |-> "Cannot modify immutable SparkJobSpec"])
====
